---- MODULE Spec2Model ----
(***************************************************************************)
(* Model of pykit.ledger.Ledger (src/src/pykit/ledger/ledger.py): a JSON   *)
(* run ledger shared by several processes.  Every process owns one Ledger  *)
(* instance (its file, maxsize and _data cache); the ledger file and the   *)
(* multiprocessing lock are shared.                                        *)
(***************************************************************************)
EXTENDS Integers, Sequences, FiniteSets, TLC

\* ------------------------------------------------------------------ *\
\* Bounds of the model
\* ------------------------------------------------------------------ *\
\* capacity bound handed to every Ledger constructor (maxsize argument)
MaxSize == 2
\* number of public calls issued in one behaviour
MaxCalls == 3
\* largest maxsize handed to the naming strategy on its own
MaxNamingSize == 11

\* ------------------------------------------------------------------ *\
\* Input domains
\* ------------------------------------------------------------------ *\
Procs == {"p1", "p2"}
Identifiers == {"id_A", "id_B"}

\* Optional values: None is the empty tuple, Some(x) the one-element tuple.
None == <<>>
Some(x) == <<x>>

\* Status enum members (by member name) and their JSON string values
Status == {"PENDING", "RUNNING", "DONE", "ERROR"}
StatusValue(s) ==
    CASE s = "PENDING" -> "pending"
      [] s = "RUNNING" -> "running"
      [] s = "DONE" -> "done"
      [] s = "ERROR" -> "error"
StatusOfValue(v) == CHOOSE s \in Status : StatusValue(s) = v

\* Python dicts keyed by strings
EmptyDict == [k \in {} |-> None]
Dict1(k, v) == [t \in {k} |-> v]
Dict2(k1, v1, k2, v2) == [t \in {k1, k2} |-> IF t = k1 THEN v1 ELSE v2]

\* (status, relpath, param_hash) arguments of allocate
AllocArgs == {<<"PENDING", ".", Some(5)>>, <<"RUNNING", ".", None>>}

\* (status, path_dict) arguments of log
LogArgs ==
    {<<None, None>>, <<None, Some(EmptyDict)>>, <<Some("RUNNING"), None>>,
     <<None, Some(Dict1("b", "w"))>>, <<None, Some(Dict2("a", "x", "b", "y"))>>,
     <<Some("DONE"), Some(Dict1("a", "z"))>>}

\* param_hash arguments of find_by_param_hash
QueryHashes == {None, Some(5), Some(7)}

\* ------------------------------------------------------------------ *\
\* Naming strategy: zero-padded decimal counter
\* ------------------------------------------------------------------ *\
RECURSIVE Digits(_)
Digits(n) == IF n < 10 THEN <<n>> ELSE Digits(n \div 10) \o <<n % 10>>

\* width = len(str(maxsize - 1))
Width(maxsize) == Len(Digits(maxsize - 1))

\* f"{n:0{width}d}" as the sequence of its decimal digits
Pad(n, width) ==
    LET d == Digits(n)
    IN  IF Len(d) >= width THEN d
        ELSE [i \in 1..(width - Len(d)) |-> 0] \o d

\* the integers of [0, maxsize) whose padded form is not an existing key
FreeCounters(existing_keys, maxsize) ==
    {n \in 0..(maxsize - 1) :
        \A i \in 1..Len(existing_keys) : existing_keys[i] # Pad(n, Width(maxsize))}

\* a strategy that names by the number of existing keys
counter_naming_by_count(existing_keys, maxsize) ==
    IF Len(existing_keys) >= maxsize THEN None
    ELSE Some(Pad(Len(existing_keys), Width(maxsize)))

\* Result of counter_naming_strategy(existing_keys, maxsize): Some(uid), or
\* None when the strategy raises its capacity error
counter_naming_strategy(existing_keys, maxsize) ==
    LET free == FreeCounters(existing_keys, maxsize)
    IN  IF free = {} THEN None
        ELSE Some(Pad(CHOOSE n \in free : \A m \in free : n <= m, Width(maxsize)))

\* the uids a caller may name
Uids == {Pad(n, Width(MaxSize)) : n \in 0..(MaxSize - 1)}

\* ------------------------------------------------------------------ *\
\* RunRecord and the ledger data structure
\* ------------------------------------------------------------------ *\
\* RunRecord(status=..., param_hash=..., relpath=...): not yet stamped, no files
RunRecord(status, param_hash, relpath) ==
    [status |-> status, param_hash |-> param_hash, relpath |-> relpath,
     timestamp |-> None, files |-> EmptyDict]

\* record.timestamp_status(): stamp the record with the current instant
timestamp_status(record, now) == [record EXCEPT !.timestamp = Some(now)]

\* A UID_RECORD_DICT is a Python dict: the sequence of its items in insertion
\* order.  list(uid_records.keys())
keys(uid_records) == [i \in 1..Len(uid_records) |-> uid_records[i].uid]

\* uid in uid_records
contains(uid_records, uid) == \E i \in 1..Len(uid_records) : uid_records[i].uid = uid

\* uid_records[uid]
getitem(uid_records, uid) ==
    uid_records[CHOOSE i \in 1..Len(uid_records) : uid_records[i].uid = uid].rec

\* uid_records[uid] = record: an existing key keeps its position, a new key
\* goes last
setitem(uid_records, uid, record) ==
    IF contains(uid_records, uid)
    THEN [i \in 1..Len(uid_records) |->
            IF uid_records[i].uid = uid THEN [uid |-> uid, rec |-> record]
            ELSE uid_records[i]]
    ELSE Append(uid_records, [uid |-> uid, rec |-> record])

\* data.setdefault(identifier, {}), as the dict after the call
setdefault(data, identifier) ==
    IF identifier \in DOMAIN data THEN data
    ELSE [k \in DOMAIN data \cup {identifier} |->
            IF k = identifier THEN <<>> ELSE data[k]]

\* a dict that keeps the edited run-set only
with_run_set_only(data, identifier, uid_records) ==
    [k \in {identifier} |-> uid_records]

\* data[identifier] = uid_records (the run-set is edited in place)
with_run_set(data, identifier, uid_records) ==
    [k \in DOMAIN data \cup {identifier} |->
        IF k = identifier THEN uid_records ELSE data[k]]

\* files = path_dict instead of an update
files_replace(files, path_dict) == path_dict

\* files.update(path_dict)
files_update(files, path_dict) ==
    [t \in DOMAIN files \cup DOMAIN path_dict |->
        IF t \in DOMAIN path_dict THEN path_dict[t] ELSE files[t]]

\* ------------------------------------------------------------------ *\
\* JSON form of the document: DATA_STRUCTURE_MODEL.dump_json / validate_json
\* ------------------------------------------------------------------ *\
\* an instant is written as the string of its decimal digits and read back
\* as the number they spell
RECURSIVE Number(_)
Number(digits) ==
    IF Len(digits) = 0 THEN 0
    ELSE 10 * Number(SubSeq(digits, 1, Len(digits) - 1)) + digits[Len(digits)]

TimestampJSON(timestamp) ==
    IF timestamp = None THEN None ELSE Some(Digits(timestamp[1]))

TimestampOfJSON(j) == IF j = None THEN None ELSE Some(Number(j[1]))

RecordJSON(record) ==
    [status |-> StatusValue(record.status), param_hash |-> record.param_hash,
     relpath |-> record.relpath, timestamp |-> TimestampJSON(record.timestamp),
     files |-> record.files]

RecordOfJSON(j) ==
    [status |-> StatusOfValue(j.status), param_hash |-> j.param_hash,
     relpath |-> j.relpath, timestamp |-> TimestampOfJSON(j.timestamp),
     files |-> j.files]

\* a dump that writes a status by the name of its member, not by its value
dump_json_by_name(data) ==
    [k \in DOMAIN data |->
        [i \in 1..Len(data[k]) |->
            [uid |-> data[k][i].uid,
             rec |-> [RecordJSON(data[k][i].rec) EXCEPT
                         !.status = data[k][i].rec.status]]]]

dump_json(data) ==
    [k \in DOMAIN data |->
        [i \in 1..Len(data[k]) |->
            [uid |-> data[k][i].uid, rec |-> RecordJSON(data[k][i].rec)]]]

validate_json(bytes) ==
    [k \in DOMAIN bytes |->
        [i \in 1..Len(bytes[k]) |->
            [uid |-> bytes[k][i].uid, rec |-> RecordOfJSON(bytes[k][i].rec)]]]

\* ------------------------------------------------------------------ *\
\* State
\* ------------------------------------------------------------------ *\
VARIABLES
    file,         \* the ledger file: [exists, bytes]
    LEDGER_LOCK,  \* per process: the module global, "None" or "lock"
    holder,       \* the process holding the multiprocessing lock, or "free"
    maxsize,      \* per process: Ledger.maxsize
    self_data,    \* per process: Ledger._data, the in-memory cache
    pc,           \* per process: position of its current call
    call,         \* per process: arguments of the call in progress
    data,         \* per process: local `data` of _edit_data
    aliased,      \* per process: `data` is the object held in _data
    last,         \* outcome of the call that completed last
    ncalls,       \* number of calls issued so far
    returned,     \* history: per identifier, the [proc, uid] allocate returned
    attached,     \* history: per (identifier, uid), the path_dicts logged
    io,           \* the _load and _save calls made by the latest step of a
                  \* call of allocate, log or a query
    instances     \* per process: the registry of the Ledger instances by file

vars == <<file, LEDGER_LOCK, holder, maxsize, self_data, pc, call, data,
          aliased, last, ncalls, returned, attached, io, instances>>

NoCall ==
    [op |-> "none", identifier |-> "", uid |-> None, status |-> None,
     relpath |-> "", param_hash |-> None, path_dict |-> None]

\* outcome of a call: the operation and what it returned or raised; Running
\* once a later call has got into its with block
Running == [op |-> "none", kind |-> "running", val |-> None]
Returned(op, kind, val) == [op |-> op, kind |-> kind, val |-> val]
Raised(op, exc) == [op |-> op, kind |-> exc, val |-> None]

\* the file accesses of one step: calls of _load and calls of _save
IO(loads, saves) == [loads |-> loads, saves |-> saves]
NoIO == IO(0, 0)

\* datetime.now(): the instant advances with every call issued
datetime_now == ncalls

Init ==
    /\ file = [exists |-> FALSE, bytes |-> EmptyDict]
    /\ LEDGER_LOCK = [p \in Procs |-> "None"]
    /\ holder = "free"
    /\ maxsize = [p \in Procs |-> MaxSize]
    /\ self_data = [p \in Procs |-> EmptyDict]
    /\ pc = [p \in Procs |-> "start"]
    /\ call = [p \in Procs |-> NoCall]
    /\ data = [p \in Procs |-> EmptyDict]
    /\ aliased = [p \in Procs |-> FALSE]
    /\ last = Running
    /\ ncalls = 0
    /\ returned = [k \in Identifiers |-> <<>>]
    /\ attached = [k \in Identifiers |-> [u \in Uids |-> <<>>]]
    /\ io = NoIO
    /\ instances = [p \in Procs |-> EmptyDict]

\* ------------------------------------------------------------------ *\
\* Helpers of the operations
\* ------------------------------------------------------------------ *\
\* Python truthiness of the optional arguments of log: a Status member is
\* truthy, a dict is truthy when it is not empty
truthy_status(status) == status # None
truthy_dict(path_dict) == path_dict # None /\ DOMAIN path_dict[1] # {}

\* a log without its early return
log_never_returns_early(status, path_dict) == FALSE

\* log: `if not (status or path_dict): return`
log_returns_early(status, path_dict) ==
    ~(truthy_status(status) \/ truthy_dict(path_dict))

\* DATA_STRUCTURE_MODEL.validate_json accepts the bytes: the status of every
\* record is the value of a Status member
validates(bytes) ==
    \A k \in DOMAIN bytes :
        \A i \in 1..Len(bytes[k]) :
            bytes[k][i].rec.status \in {StatusValue(s) : s \in Status}

\* Ledger._load raises ValidationError: the file exists and validate_json
\* rejects its bytes
load_raises(f) == f.exists /\ ~validates(f.bytes)

\* Ledger._load: the dict it returns (when it does not raise)
load_returns(f) == IF ~f.exists THEN EmptyDict ELSE validate_json(f.bytes)

\* a _load that takes a malformed document for an empty one
load_truncates(f) ==
    [raised |-> FALSE,
     data |-> IF load_raises(f) THEN EmptyDict ELSE load_returns(f)]

\* Ledger._load: it raises ValidationError, or returns the validated dict
load_outcome(f) ==
    IF load_raises(f) THEN [raised |-> TRUE, data |-> EmptyDict]
    ELSE [raised |-> FALSE, data |-> load_returns(f)]

\* Ledger._load: the cache after a call that returns (untouched when the
\* file is missing, the returned dict otherwise)
load_cache(f, cache) == IF ~f.exists THEN cache ELSE load_outcome(f).data

\* Ledger._save: the file after write_bytes(dump_json(data))
save_writes(d) == [exists |-> TRUE, bytes |-> dump_json(d)]

\* a _save that leaves the cache as it was
save_keeps_cache(d, cache) == cache

\* Ledger._save: `self._data = data`, the cache after the write
save_cache(d, cache) == d

\* a `with lock:` that does not wait for the holder
lock_ignored(p) == TRUE

\* an _edit_data that cannot be entered without a lock handle
lock_required(p) == LEDGER_LOCK[p] = "lock" /\ holder = "free"

\* _edit_data: `lock = LEDGER_LOCK or nullcontext(); with lock:` can be entered
lock_enterable(p) == LEDGER_LOCK[p] = "None" \/ holder = "free"

\* a release that an exception in the with block skips
lock_exit_unless_raised(p, raised) ==
    IF holder = p /\ ~raised THEN "free" ELSE holder

\* _edit_data: the end of `with lock:`, on return and on exception alike; the
\* holder of the lock afterwards
lock_exit(p, raised) == IF holder = p THEN "free" ELSE holder

\* a query that waits for the holder of the lock
read_waits_for_lock(p) == holder = "free"

\* get_record, get_uid_record_dict, find_by_param_hash open no `with lock`:
\* a query runs whoever holds the lock
read_enterable(p) == TRUE

\* an _edit_data that works on the cache of the instance
edit_data_trusts_cache(loaded, cache) == cache

\* _edit_data: `data = self._load()`, the dict the call works on
edit_data_loads(loaded, cache) == loaded

\* an _edit_data that saves in a finally clause
edit_data_saves_always(raised) == TRUE

\* _edit_data: `yield data; self._save(data)`: an exception thrown into the
\* generator at the yield skips the save
edit_data_saves(raised) == ~raised

\* an allocate that hands the naming strategy no keys
existing_keys_none(uid_records) == <<>>

\* allocate: the keys handed to the naming strategy
existing_keys(uid_records) == keys(uid_records)

\* an allocate that drops its status argument
allocate_record_pending(status, param_hash, relpath, now) ==
    timestamp_status(RunRecord("PENDING", param_hash, relpath), now)

\* allocate: the record it inserts
allocate_record(status, param_hash, relpath, now) ==
    timestamp_status(RunRecord(status, param_hash, relpath), now)

\* a log that puts a new record in the place of the one it edits
log_record_fresh(record, status, path_dict, now) ==
    LET r0 == RunRecord(record.status, None, ".")
        r1 == IF truthy_status(status)
              THEN timestamp_status([r0 EXCEPT !.status = status[1]], now)
              ELSE [r0 EXCEPT !.timestamp = record.timestamp]
    IN  IF truthy_dict(path_dict)
        THEN [r1 EXCEPT !.files = files_update(record.files, path_dict[1])]
        ELSE [r1 EXCEPT !.files = record.files]

\* a log that keeps the status and the stamp of a record that is DONE or ERROR
log_record_terminal(record, status, path_dict, now) ==
    LET r1 == IF truthy_status(status) /\ record.status \notin {"DONE", "ERROR"}
              THEN timestamp_status([record EXCEPT !.status = status[1]], now)
              ELSE record
    IN  IF truthy_dict(path_dict)
        THEN [r1 EXCEPT !.files = files_update(r1.files, path_dict[1])]
        ELSE r1

\* log: the body of `with self._edit_record(...) as record`
log_record(record, status, path_dict, now) ==
    LET r1 == IF truthy_status(status)
              THEN timestamp_status([record EXCEPT !.status = status[1]], now)
              ELSE record
    IN  IF truthy_dict(path_dict)
        THEN [r1 EXCEPT !.files = files_update(r1.files, path_dict[1])]
        ELSE r1

\* an _edit_uid_record_dict that yields the records of every identifier
edit_all_records(d, identifier) ==
    (IF "id_A" \in DOMAIN d THEN d["id_A"] ELSE <<>>)
        \o (IF "id_B" \in DOMAIN d THEN d["id_B"] ELSE <<>>)

\* _edit_uid_record_dict: the run-set it yields, data.setdefault(identifier,
\* {}) on the dict after the setdefault
edit_uid_record_dict(d, identifier) == d[identifier]

\* allocate, from the loaded dict to the dict at the end of the with block:
\* [data, result]
allocate_outcome(d, c, size, now) ==
    LET d1 == setdefault(d, c.identifier)
        uid_records == edit_uid_record_dict(d1, c.identifier)
        named == counter_naming_strategy(existing_keys(uid_records), size)
    IN  IF named = None
        THEN [data |-> d1, result |-> Raised("allocate", "CapacityExceeded")]
        ELSE [data |-> with_run_set(d1, c.identifier,
                          setitem(uid_records, named[1],
                                  allocate_record(c.status[1], c.param_hash,
                                                  c.relpath, now))),
              result |-> Returned("allocate", "uid", named[1])]

\* log past its early return, from the loaded dict to the dict at the end of
\* the with block: [data, result]
log_outcome(d, c, now) ==
    LET d1 == setdefault(d, c.identifier)
        records_dict == edit_uid_record_dict(d1, c.identifier)
    IN  IF ~contains(records_dict, c.uid)
        THEN [data |-> d1, result |-> Raised("log", "KeyError")]
        ELSE [data |-> with_run_set(d1, c.identifier,
                          setitem(records_dict, c.uid,
                                  log_record(getitem(records_dict, c.uid),
                                             c.status, c.path_dict, now))),
              result |-> Returned("log", "none", None)]

\* get_record on the loaded dict
get_record_outcome(d, identifier, uid) ==
    IF identifier \notin DOMAIN d \/ ~contains(d[identifier], uid)
    THEN Raised("get_record", "KeyError")
    ELSE Returned("get_record", "record", <<getitem(d[identifier], uid)>>)

\* a get_uid_record_dict that takes an absent identifier for an empty run-set
get_uid_record_dict_lenient(d, identifier) ==
    [op |-> "get_uid_record_dict", kind |-> "dict",
     val |-> IF identifier \in DOMAIN d THEN d[identifier] ELSE <<>>]

\* get_uid_record_dict on the loaded dict
get_uid_record_dict_outcome(d, identifier) ==
    IF identifier \notin DOMAIN d THEN Raised("get_uid_record_dict", "KeyError")
    ELSE Returned("get_uid_record_dict", "dict", d[identifier])

\* the generator `(u, r) for u, r in items() if r.param_hash == param_hash`
matches(uid_records, param_hash) ==
    SelectSeq(uid_records, LAMBDA e : e.rec.param_hash = param_hash)

\* the last match instead of the first
last_or_none(match) ==
    IF Len(match) = 0 THEN [op |-> "find_by_param_hash", kind |-> "none", val |-> None]
    ELSE [op |-> "find_by_param_hash", kind |-> "hit",
          val |-> <<match[Len(match)].uid, match[Len(match)].rec>>]

\* next(match, None)
next_or_none(match) ==
    IF Len(match) = 0 THEN Returned("find_by_param_hash", "none", None)
    ELSE Returned("find_by_param_hash", "hit", <<match[1].uid, match[1].rec>>)

\* find_by_param_hash past its early return, on the loaded dict
find_by_param_hash_outcome(d, identifier, param_hash) ==
    LET got == get_uid_record_dict_outcome(d, identifier)
    IN  IF got.kind = "KeyError" THEN Raised("find_by_param_hash", "KeyError")
        ELSE next_or_none(matches(got.val, param_hash))

\* ------------------------------------------------------------------ *\
\* Operations
\* ------------------------------------------------------------------ *\
\* set_global_lock(lock), run by the pool initializer of process p
set_global_lock(p) ==
    /\ pc[p] = "start"
    /\ LEDGER_LOCK' = [LEDGER_LOCK EXCEPT ![p] = "lock"]
    /\ pc' = [pc EXCEPT ![p] = "idle"]
    /\ UNCHANGED <<file, holder, maxsize, self_data, call, data, aliased,
                   last, ncalls, returned, attached, io, instances>>

\* _edit_data up to its yield: the lock is taken (the call blocks until it
\* can be) and the document is loaded; a load that raises ends the call at
\* once: the with statement releases the lock and nothing is saved
edit_data_enter(p, c) ==
    /\ lock_enterable(p)
    /\ io' = IO(1, 0)
    /\ IF load_outcome(file).raised
       THEN /\ last' = Raised(c.op, "ValidationError")
            /\ call' = [call EXCEPT ![p] = NoCall]
            /\ pc' = [pc EXCEPT ![p] = "idle"]
            /\ UNCHANGED <<holder, data, self_data, aliased>>
       ELSE /\ holder' = IF LEDGER_LOCK[p] = "None" THEN holder ELSE p
            /\ data' = [data EXCEPT ![p] =
                          edit_data_loads(load_outcome(file).data,
                                          self_data[p])]
            /\ self_data' = [self_data EXCEPT ![p] =
                               load_cache(file, self_data[p])]
            /\ aliased' = [aliased EXCEPT ![p] = file.exists]
            /\ call' = [call EXCEPT ![p] = c]
            /\ pc' = [pc EXCEPT ![p] = "body"]
            /\ last' = Running

\* _edit_data from its yield on, for a body that produced `out`: the
\* document is saved unless the body raised, the lock is released and the
\* call returns or raises
edit_data_leave(p, out) ==
    LET raised == out.result.kind \in {"KeyError", "CapacityExceeded"}
    IN  /\ last' = out.result
        /\ io' = IO(0, IF edit_data_saves(raised) THEN 1 ELSE 0)
        /\ IF edit_data_saves(raised)
           THEN /\ file' = save_writes(out.data)
                /\ self_data' = [self_data EXCEPT ![p] =
                                   save_cache(out.data, self_data[p])]
           ELSE /\ file' = file
                /\ self_data' = IF aliased[p]
                                THEN [self_data EXCEPT ![p] = out.data]
                                ELSE self_data
        /\ holder' = lock_exit(p, raised)
        /\ data' = [data EXCEPT ![p] = EmptyDict]
        /\ aliased' = [aliased EXCEPT ![p] = FALSE]
        /\ call' = [call EXCEPT ![p] = NoCall]
        /\ pc' = [pc EXCEPT ![p] = "idle"]

\* Ledger.allocate is called and gets into its with block
allocate(p, identifier, status, relpath, param_hash) ==
    /\ pc[p] = "idle"
    /\ ncalls < MaxCalls
    /\ ncalls' = ncalls + 1
    /\ edit_data_enter(p, [op |-> "allocate", identifier |-> identifier,
                           uid |-> None, status |-> Some(status),
                           relpath |-> relpath, param_hash |-> param_hash,
                           path_dict |-> None])
    /\ UNCHANGED <<file, LEDGER_LOCK, maxsize, returned, attached, instances>>

\* Ledger.allocate: the body of its with block, the save and the return
allocate_return(p) ==
    /\ pc[p] = "body"
    /\ call[p].op = "allocate"
    /\ LET out == allocate_outcome(data[p], call[p], maxsize[p], datetime_now)
       IN  /\ edit_data_leave(p, out)
           /\ returned' =
                 IF out.result.kind = "uid"
                 THEN [returned EXCEPT ![call[p].identifier] =
                          Append(@, [proc |-> p, uid |-> out.result.val])]
                 ELSE returned
    /\ UNCHANGED <<LEDGER_LOCK, maxsize, ncalls, attached, instances>>

\* Ledger.log is called: it returns at once when there is nothing to log,
\* and gets into its with block otherwise
log(p, identifier, uid, status, path_dict) ==
    /\ pc[p] = "idle"
    /\ ncalls < MaxCalls
    /\ ncalls' = ncalls + 1
    /\ IF log_returns_early(status, path_dict)
       THEN /\ last' = Returned("log", "none", None)
            /\ io' = NoIO
            /\ UNCHANGED <<holder, data, self_data, aliased, call, pc>>
       ELSE edit_data_enter(p, [op |-> "log", identifier |-> identifier,
                                uid |-> uid, status |-> status,
                                relpath |-> "", param_hash |-> None,
                                path_dict |-> path_dict])
    /\ UNCHANGED <<file, LEDGER_LOCK, maxsize, returned, attached, instances>>

\* Ledger.log: the body of its with block, the save and the return
log_return(p) ==
    /\ pc[p] = "body"
    /\ call[p].op = "log"
    /\ LET out == log_outcome(data[p], call[p], datetime_now)
       IN  /\ edit_data_leave(p, out)
           /\ attached' =
                 IF out.result.kind = "none" /\ truthy_dict(call[p].path_dict)
                 THEN [attached EXCEPT ![call[p].identifier][call[p].uid] =
                          Append(@, call[p].path_dict[1])]
                 ELSE attached
    /\ UNCHANGED <<LEDGER_LOCK, maxsize, ncalls, returned, instances>>

\* a query, from its one call of _load to its outcome: the load may raise,
\* and leaves the cache as it found it when it does
read(p, op, outcome) ==
    /\ read_enterable(p)
    /\ io' = IO(1, 0)
    /\ IF load_outcome(file).raised
       THEN /\ last' = Raised(op, "ValidationError")
            /\ self_data' = self_data
       ELSE /\ last' = outcome
            /\ self_data' = [self_data EXCEPT ![p] =
                               load_cache(file, self_data[p])]

\* Ledger.get_record: an unlocked read
get_record(p, identifier, uid) ==
    /\ pc[p] = "idle"
    /\ ncalls < MaxCalls
    /\ ncalls' = ncalls + 1
    /\ read(p, "get_record",
            get_record_outcome(load_outcome(file).data, identifier, uid))
    /\ UNCHANGED <<file, LEDGER_LOCK, holder, maxsize, pc, call, data,
                   aliased, returned, attached, instances>>

\* Ledger.get_uid_record_dict: an unlocked read
get_uid_record_dict(p, identifier) ==
    /\ pc[p] = "idle"
    /\ ncalls < MaxCalls
    /\ ncalls' = ncalls + 1
    /\ read(p, "get_uid_record_dict",
            get_uid_record_dict_outcome(load_outcome(file).data, identifier))
    /\ UNCHANGED <<file, LEDGER_LOCK, holder, maxsize, pc, call, data,
                   aliased, returned, attached, instances>>

\* Ledger.find_by_param_hash: returns None without loading when param_hash
\* is None, an unlocked read otherwise
find_by_param_hash(p, identifier, param_hash) ==
    /\ pc[p] = "idle"
    /\ ncalls < MaxCalls
    /\ ncalls' = ncalls + 1
    /\ IF param_hash = None
       THEN /\ last' = Returned("find_by_param_hash", "none", None)
            /\ io' = NoIO
            /\ self_data' = self_data
       ELSE read(p, "find_by_param_hash",
                 find_by_param_hash_outcome(load_outcome(file).data,
                                            identifier, param_hash))
    /\ UNCHANGED <<file, LEDGER_LOCK, holder, maxsize, pc, call, data,
                   aliased, returned, attached, instances>>

Next ==
    \/ \E p \in Procs : set_global_lock(p)
    \/ \E p \in Procs, identifier \in Identifiers, a \in AllocArgs :
          allocate(p, identifier, a[1], a[2], a[3])
    \/ \E p \in Procs : allocate_return(p)
    \/ \E p \in Procs, identifier \in Identifiers, uid \in Uids,
          a \in LogArgs :
          log(p, identifier, uid, a[1], a[2])
    \/ \E p \in Procs : log_return(p)
    \/ \E p \in Procs, identifier \in Identifiers, uid \in Uids :
          get_record(p, identifier, uid)
    \/ \E p \in Procs, identifier \in Identifiers :
          get_uid_record_dict(p, identifier)
    \/ \E p \in Procs, identifier \in Identifiers, param_hash \in QueryHashes :
          find_by_param_hash(p, identifier, param_hash)

Spec == Init /\ [][Next]_vars

\* ------------------------------------------------------------------ *\
\* The per-path registry: class Ledger(metaclass=PerPathSingleton)
\* ------------------------------------------------------------------ *\
\* the working directory of the processes, and the spellings of ledger paths
\* handed to the constructor (components relative to the working directory)
Cwd == <<"work">>
Paths ==
    {<<"ledger.json">>, <<".", "ledger.json">>,
     <<"runs", "..", "ledger.json">>, <<"runs", "ledger.json">>}

\* maxsize arguments handed to the constructor
Sizes == {MaxSize, MaxSize + 1}

\* walk the components of a path: "." stays, ".." drops the last component
RECURSIVE normalize(_, _)
normalize(done, rest) ==
    IF rest = <<>> THEN done
    ELSE IF Head(rest) = "." THEN normalize(done, Tail(rest))
    ELSE IF Head(rest) = ".."
         THEN normalize(IF done = <<>> THEN done
                        ELSE SubSeq(done, 1, Len(done) - 1), Tail(rest))
    ELSE normalize(Append(done, Head(rest)), Tail(rest))

\* Path(path).expanduser().resolve(): the absolute, normalised path
resolve(path) == normalize(Cwd, path)

\* Ledger.__init__: the fields of a fresh instance
Ledger_init(path, size) ==
    [file |-> resolve(path), maxsize |-> size, data |-> EmptyDict]

\* a registry that never finds an instance
registered_never(registry, key) == FALSE

\* PerPathSingleton: the registry of the process holds an instance for the key
registered(registry, key) == key \in DOMAIN registry

\* PerPathSingleton.__call__: the registry after Ledger(path, maxsize); the
\* instance carries the number of its creation as its identity
registry_call(registry, path, size) ==
    LET key == resolve(path)
    IN  IF registered(registry, key) THEN registry
        ELSE [k \in DOMAIN registry \cup {key} |->
                IF k = key
                THEN [id |-> Cardinality(DOMAIN registry),
                      obj |-> Ledger_init(path, size)]
                ELSE registry[k]]

\* Ledger(path, maxsize) in process p: the call returns the instance the
\* registry holds for the resolved path after the call
Ledger(p, path, size) ==
    /\ ncalls < MaxCalls
    /\ ncalls' = ncalls + 1
    /\ instances' = [instances EXCEPT ![p] = registry_call(@, path, size)]
    /\ call' = [call EXCEPT ![p] = [op |-> "Ledger", path |-> path,
                                    maxsize |-> size]]
    /\ last' = Returned("Ledger", "instance",
                        <<p, instances'[p][resolve(path)].id>>)
    /\ UNCHANGED <<file, LEDGER_LOCK, holder, maxsize, self_data, pc, data,
                   aliased, returned, attached, io>>

NextRegistry ==
    \E p \in Procs, path \in Paths, size \in Sizes : Ledger(p, path, size)

SpecRegistry == Init /\ [][NextRegistry]_vars

\* ------------------------------------------------------------------ *\
\* Two processes sharing the ledger, with few arguments
\* ------------------------------------------------------------------ *\
\* the arguments of the mutating calls: one identifier, its first uid
FewIds == {"id_A"}
FewUids == {Pad(0, Width(MaxSize))}
FewAllocArgs == {<<"PENDING", ".", Some(5)>>}
FewLogArgs ==
    {<<None, None>>, <<Some("RUNNING"), None>>, <<None, Some(Dict1("b", "w"))>>}
FewHashes == {None, Some(5)}

NextShared ==
    \/ \E p \in Procs : set_global_lock(p)
    \/ \E p \in Procs, identifier \in FewIds, a \in FewAllocArgs :
          allocate(p, identifier, a[1], a[2], a[3])
    \/ \E p \in Procs : allocate_return(p)
    \/ \E p \in Procs, identifier \in FewIds, uid \in FewUids,
          a \in FewLogArgs :
          log(p, identifier, uid, a[1], a[2])
    \/ \E p \in Procs : log_return(p)
    \/ \E p \in Procs, identifier \in Identifiers, uid \in FewUids :
          get_record(p, identifier, uid)
    \/ \E p \in Procs, identifier \in Identifiers :
          get_uid_record_dict(p, identifier)
    \/ \E p \in Procs, identifier \in Identifiers, param_hash \in FewHashes :
          find_by_param_hash(p, identifier, param_hash)

SpecShared == Init /\ [][NextShared]_vars

\* ------------------------------------------------------------------ *\
\* Serial mode: one process, with or without the lock handle
\* ------------------------------------------------------------------ *\
\* the process that uses the ledger alone
SerialProc == "p1"

\* the process either ran set_global_lock(lock) before its first call or
\* left LEDGER_LOCK at None
InitSerial ==
    /\ file = [exists |-> FALSE, bytes |-> EmptyDict]
    /\ LEDGER_LOCK \in {[p \in Procs |-> IF p = SerialProc THEN m ELSE "None"] :
                          m \in {"None", "lock"}}
    /\ holder = "free"
    /\ maxsize = [p \in Procs |-> MaxSize]
    /\ self_data = [p \in Procs |-> EmptyDict]
    /\ pc = [p \in Procs |-> IF p = SerialProc THEN "idle" ELSE "start"]
    /\ call = [p \in Procs |-> NoCall]
    /\ data = [p \in Procs |-> EmptyDict]
    /\ aliased = [p \in Procs |-> FALSE]
    /\ last = Running
    /\ ncalls = 0
    /\ returned = [k \in Identifiers |-> <<>>]
    /\ attached = [k \in Identifiers |-> [u \in Uids |-> <<>>]]
    /\ io = NoIO
    /\ instances = [p \in Procs |-> EmptyDict]

\* (status, path_dict) arguments of log in serial mode
SerialLogArgs == FewLogArgs \cup {<<Some("DONE"), Some(Dict1("a", "z"))>>}

NextSerial ==
    \/ \E identifier \in FewIds, a \in FewAllocArgs :
          allocate(SerialProc, identifier, a[1], a[2], a[3])
    \/ allocate_return(SerialProc)
    \/ \E identifier \in FewIds, uid \in Uids, a \in SerialLogArgs :
          log(SerialProc, identifier, uid, a[1], a[2])
    \/ log_return(SerialProc)
    \/ \E identifier \in Identifiers, uid \in FewUids :
          get_record(SerialProc, identifier, uid)
    \/ \E identifier \in Identifiers :
          get_uid_record_dict(SerialProc, identifier)
    \/ \E identifier \in Identifiers, param_hash \in FewHashes :
          find_by_param_hash(SerialProc, identifier, param_hash)

SpecSerial == InitSerial /\ [][NextSerial]_vars

\* ------------------------------------------------------------------ *\
\* A ledger file that does not conform to the schema
\* ------------------------------------------------------------------ *\
\* the JSON of a record whose status is no value of Status
BadRecordJSON ==
    [status |-> "bogus", param_hash |-> None, relpath |-> ".",
     timestamp |-> Some(Digits(0)), files |-> EmptyDict]

\* malformed documents: one bad record, and a bad record after a good one
MalformedDocs ==
    {Dict1("id_A", <<[uid |-> Pad(0, Width(MaxSize)), rec |-> BadRecordJSON]>>),
     Dict2("id_A", <<[uid |-> Pad(0, Width(MaxSize)),
                      rec |-> RecordJSON(allocate_record("PENDING", Some(5),
                                                         ".", 0))]>>,
           "id_B", <<[uid |-> Pad(0, Width(MaxSize)), rec |-> BadRecordJSON]>>)}

\* the file is rewritten from outside the store (a manual edit, the partial
\* write of a crashed writer) with bytes that validate_json rejects
corrupt(bytes) ==
    /\ ~load_raises(file)
    /\ file' = [exists |-> TRUE, bytes |-> bytes]
    /\ UNCHANGED <<LEDGER_LOCK, holder, maxsize, self_data, pc, call, data,
                   aliased, last, ncalls, returned, attached, io, instances>>

NextMalformed ==
    \/ \E p \in Procs : set_global_lock(p)
    \/ \E bytes \in MalformedDocs : corrupt(bytes)
    \/ \E p \in Procs, identifier \in FewIds, a \in FewAllocArgs :
          allocate(p, identifier, a[1], a[2], a[3])
    \/ \E p \in Procs : allocate_return(p)
    \/ \E p \in Procs, identifier \in FewIds, uid \in FewUids,
          a \in FewLogArgs :
          log(p, identifier, uid, a[1], a[2])
    \/ \E p \in Procs : log_return(p)
    \/ \E p \in Procs, identifier \in FewIds, uid \in FewUids :
          get_record(p, identifier, uid)
    \/ \E p \in Procs, identifier \in FewIds :
          get_uid_record_dict(p, identifier)
    \/ \E p \in Procs, identifier \in FewIds,
          param_hash \in FewHashes :
          find_by_param_hash(p, identifier, param_hash)

SpecMalformed == Init /\ [][NextMalformed]_vars

\* ------------------------------------------------------------------ *\
\* The naming strategy on its own
\* ------------------------------------------------------------------ *\
\* the process that calls the strategy
NamingProc == "p1"

\* the elements of a set of integers as a list, smallest first
RECURSIVE Ascending(_)
Ascending(S) ==
    IF S = {} THEN <<>>
    ELSE LET x == CHOOSE n \in S : \A m \in S : n <= m
         IN  <<x>> \o Ascending(S \ {x})

Reverse(seq) == [i \in 1..Len(seq) |-> seq[Len(seq) + 1 - i]]

\* the key lists handed to the strategy for one maxsize: the padded forms of
\* every set of counters below maxsize (with or without gaps), smallest
\* first, and largest first after a key of another width
NamingKeys(size) ==
    UNION {LET own == [i \in 1..Cardinality(S) |->
                          Pad(Ascending(S)[i], Width(size))]
           IN  {own, <<Pad(0, Width(size) + 1)>> \o Reverse(own)} :
           S \in SUBSET (0..(size - 1))}

\* counter_naming_strategy(existing_keys, maxsize=maxsize) is about to be
\* called with some list of keys and some maxsize
InitNaming ==
    /\ file = [exists |-> FALSE, bytes |-> EmptyDict]
    /\ LEDGER_LOCK = [p \in Procs |-> "None"]
    /\ holder = "free"
    /\ maxsize = [p \in Procs |-> MaxSize]
    /\ self_data = [p \in Procs |-> EmptyDict]
    /\ pc = [p \in Procs |-> "start"]
    /\ \E size \in 1..MaxNamingSize :
          \E existing \in NamingKeys(size) :
              call = [p \in Procs |->
                        IF p = NamingProc
                        THEN [op |-> "counter_naming_strategy",
                              existing_keys |-> existing, maxsize |-> size]
                        ELSE NoCall]
    /\ data = [p \in Procs |-> EmptyDict]
    /\ aliased = [p \in Procs |-> FALSE]
    /\ last = Running
    /\ ncalls = 0
    /\ returned = [k \in Identifiers |-> <<>>]
    /\ attached = [k \in Identifiers |-> [u \in Uids |-> <<>>]]
    /\ io = NoIO
    /\ instances = [p \in Procs |-> EmptyDict]

\* uid = counter_naming_strategy(existing_keys, maxsize=maxsize): the call
\* returns a uid or raises its capacity error; its arguments stay as given
naming_call(p) ==
    /\ call[p].op = "counter_naming_strategy"
    /\ ncalls < MaxCalls
    /\ ncalls' = ncalls + 1
    /\ LET named == counter_naming_strategy(call[p].existing_keys,
                                            call[p].maxsize)
       IN  last' = IF named = None
                   THEN Raised("counter_naming_strategy", "CapacityExceeded")
                   ELSE Returned("counter_naming_strategy", "uid", named[1])
    /\ UNCHANGED <<file, LEDGER_LOCK, holder, maxsize, self_data, pc, call,
                   data, aliased, returned, attached, io, instances>>

NextNaming == naming_call(NamingProc)

SpecNaming == InitNaming /\ [][NextNaming]_vars

\* ------------------------------------------------------------------ *\
\* Status transitions: every status at allocation, every status logged
\* ------------------------------------------------------------------ *\
StatusAllocArgs == {<<s, ".", None>> : s \in Status}
StatusLogArgs ==
    {<<Some(s), None>> : s \in Status} \cup {<<None, Some(Dict1("b", "w"))>>}

NextStatus ==
    \/ \E p \in Procs : set_global_lock(p)
    \/ \E p \in Procs, identifier \in FewIds, a \in StatusAllocArgs :
          allocate(p, identifier, a[1], a[2], a[3])
    \/ \E p \in Procs : allocate_return(p)
    \/ \E p \in Procs, identifier \in FewIds, uid \in FewUids,
          a \in StatusLogArgs :
          log(p, identifier, uid, a[1], a[2])
    \/ \E p \in Procs : log_return(p)
    \/ \E p \in Procs, identifier \in FewIds :
          get_uid_record_dict(p, identifier)

SpecStatus == Init /\ [][NextStatus]_vars

\* ------------------------------------------------------------------ *\
\* Persisting a document and loading it back: _save then _load
\* ------------------------------------------------------------------ *\
RoundTripProc == "p1"

\* stamped records: every status, with and without fingerprint and files
RoundTripRecords ==
    {[status |-> s, param_hash |-> v[1], relpath |-> ".",
      timestamp |-> Some(v[2]), files |-> v[3]] :
        s \in Status,
        v \in {<<None, 0, EmptyDict>>, <<Some(5), 12, Dict1("a", "x")>>}}

\* run-sets of at most MaxSize records under distinct uids, in every order
RoundTripRunSets ==
    UNION {{[i \in 1..n |-> [uid |-> g[i][1], rec |-> g[i][2]]] :
              g \in {h \in [1..n -> Uids \X RoundTripRecords] :
                       \A i, j \in 1..n : i # j => h[i][1] # h[j][1]}} :
           n \in 0..MaxSize}

\* valid documents: none, one or two identifiers
RoundTripDocs ==
    {EmptyDict}
        \cup {Dict1("id_A", r) : r \in RoundTripRunSets}
        \cup {Dict2("id_A", r, "id_B", o) :
                 r \in RoundTripRunSets,
                 o \in {<<>>, <<[uid |-> Pad(0, Width(MaxSize)),
                                rec |-> allocate_record("RUNNING", None, ".", 7)]>>}}

\* a ledger whose file is not written yet, and a document D to persist
InitRoundTrip ==
    /\ file = [exists |-> FALSE, bytes |-> EmptyDict]
    /\ LEDGER_LOCK = [p \in Procs |-> "None"]
    /\ holder = "free"
    /\ maxsize = [p \in Procs |-> MaxSize]
    /\ self_data = [p \in Procs |-> EmptyDict]
    /\ pc = [p \in Procs |-> IF p = RoundTripProc THEN "idle" ELSE "start"]
    /\ call = [p \in Procs |-> NoCall]
    /\ data \in {[p \in Procs |-> IF p = RoundTripProc THEN D ELSE EmptyDict] :
                   D \in RoundTripDocs}
    /\ aliased = [p \in Procs |-> FALSE]
    /\ last = Running
    /\ ncalls = 0
    /\ returned = [k \in Identifiers |-> <<>>]
    /\ attached = [k \in Identifiers |-> [u \in Uids |-> <<>>]]
    /\ io = NoIO
    /\ instances = [p \in Procs |-> EmptyDict]

\* Ledger._save(data): write the dump, keep data as the cache
Ledger_save(p, d) ==
    /\ pc[p] = "idle"
    /\ file' = save_writes(d)
    /\ self_data' = [self_data EXCEPT ![p] = save_cache(d, self_data[p])]
    /\ last' = Returned("_save", "none", None)
    /\ io' = IO(0, 1)
    /\ UNCHANGED <<LEDGER_LOCK, holder, maxsize, pc, call, data, aliased,
                   ncalls, returned, attached, instances>>

\* Ledger._load(): {} when the file is missing, else the validated dict,
\* which becomes the cache
Ledger_load(p) ==
    /\ pc[p] = "idle"
    /\ last' = IF load_outcome(file).raised
               THEN Raised("_load", "ValidationError")
               ELSE Returned("_load", "dict", load_outcome(file).data)
    /\ self_data' = IF load_outcome(file).raised THEN self_data
                    ELSE [self_data EXCEPT ![p] = load_cache(file, self_data[p])]
    /\ io' = IO(1, 0)
    /\ UNCHANGED <<file, LEDGER_LOCK, holder, maxsize, pc, call, data, aliased,
                   ncalls, returned, attached, instances>>

NextRoundTrip ==
    \/ Ledger_save(RoundTripProc, data[RoundTripProc])
    \/ Ledger_load(RoundTripProc)

SpecRoundTrip == InitRoundTrip /\ [][NextRoundTrip]_vars

\* ------------------------------------------------------------------ *\
\* Calls that wait for the lock: a call is issued, then enters _edit_data
\* ------------------------------------------------------------------ *\
\* the maxsize of the ledger: small enough for allocate to run out of uids
\* while a call of the other process is still to come
LiveSize == MaxSize - 1

\* both processes ran set_global_lock(lock) with the shared handle and
\* constructed the ledger with maxsize LiveSize
InitLive ==
    /\ file = [exists |-> FALSE, bytes |-> EmptyDict]
    /\ LEDGER_LOCK = [p \in Procs |-> "lock"]
    /\ holder = "free"
    /\ maxsize = [p \in Procs |-> LiveSize]
    /\ self_data = [p \in Procs |-> EmptyDict]
    /\ pc = [p \in Procs |-> "idle"]
    /\ call = [p \in Procs |-> NoCall]
    /\ data = [p \in Procs |-> EmptyDict]
    /\ aliased = [p \in Procs |-> FALSE]
    /\ last = Running
    /\ ncalls = 0
    /\ returned = [k \in Identifiers |-> <<>>]
    /\ attached = [k \in Identifiers |-> [u \in Uids |-> <<>>]]
    /\ io = NoIO
    /\ instances = [p \in Procs |-> EmptyDict]

\* Ledger.allocate is called: the call is at `with lock:`
allocate_call(p, identifier, status, relpath, param_hash) ==
    /\ pc[p] = "idle"
    /\ ncalls < MaxCalls
    /\ ncalls' = ncalls + 1
    /\ call' = [call EXCEPT ![p] =
                   [op |-> "allocate", identifier |-> identifier,
                    uid |-> None, status |-> Some(status),
                    relpath |-> relpath, param_hash |-> param_hash,
                    path_dict |-> None]]
    /\ pc' = [pc EXCEPT ![p] = "waiting"]
    /\ UNCHANGED <<file, LEDGER_LOCK, holder, maxsize, self_data, data,
                   aliased, last, returned, attached, io, instances>>

\* Ledger.log is called: it returns at once when there is nothing to log,
\* and is at `with lock:` otherwise
log_call(p, identifier, uid, status, path_dict) ==
    /\ pc[p] = "idle"
    /\ ncalls < MaxCalls
    /\ ncalls' = ncalls + 1
    /\ IF log_returns_early(status, path_dict)
       THEN /\ last' = Returned("log", "none", None)
            /\ io' = NoIO
            /\ UNCHANGED <<call, pc>>
       ELSE /\ call' = [call EXCEPT ![p] =
                          [op |-> "log", identifier |-> identifier,
                           uid |-> uid, status |-> status, relpath |-> "",
                           param_hash |-> None, path_dict |-> path_dict]]
            /\ pc' = [pc EXCEPT ![p] = "waiting"]
            /\ UNCHANGED <<last, io>>
    /\ UNCHANGED <<file, LEDGER_LOCK, holder, maxsize, self_data, data,
                   aliased, returned, attached, instances>>

\* the waiting call gets the lock and loads the document
edit_data_acquire(p) ==
    /\ pc[p] = "waiting"
    /\ edit_data_enter(p, call[p])
    /\ UNCHANGED <<file, LEDGER_LOCK, maxsize, ncalls, returned, attached,
                   instances>>

\* (identifier, uid, status, path_dict) arguments of the log calls: nothing
\* to log, and a status for a record that exists once it is allocated
LiveLogArgs ==
    {<<"id_A", Pad(0, Width(MaxSize)), None, None>>,
     <<"id_A", Pad(0, Width(MaxSize)), Some("RUNNING"), None>>}

NextLive ==
    \/ \E bytes \in MalformedDocs : corrupt(bytes)
    \/ \E p \in Procs, identifier \in FewIds, a \in FewAllocArgs :
          allocate_call(p, identifier, a[1], a[2], a[3])
    \/ \E p \in Procs, a \in LiveLogArgs : log_call(p, a[1], a[2], a[3], a[4])
    \/ \E p \in Procs : edit_data_acquire(p)
    \/ \E p \in Procs : allocate_return(p)
    \/ \E p \in Procs : log_return(p)

\* scheduling: a process in its with block goes on running; a process at
\* `with lock:` gets the lock if the lock is free again and again
Fairness ==
    \A p \in Procs :
        /\ SF_vars(edit_data_acquire(p))
        /\ WF_vars(allocate_return(p))
        /\ WF_vars(log_return(p))

SpecLive == InitLive /\ [][NextLive]_vars /\ Fairness

\* ------------------------------------------------------------------ *\
\* Allocations for two identifiers
\* ------------------------------------------------------------------ *\
NextPerIdentifier ==
    \/ \E p \in Procs : set_global_lock(p)
    \/ \E p \in Procs, identifier \in Identifiers, a \in AllocArgs :
          allocate(p, identifier, a[1], a[2], a[3])
    \/ \E p \in Procs : allocate_return(p)

SpecPerIdentifier == Init /\ [][NextPerIdentifier]_vars

\* ------------------------------------------------------------------ *\
\* Logs among the records of two identifiers
\* ------------------------------------------------------------------ *\
\* (status, path_dict) arguments of log: nothing, a status, a status and a file
FrameLogArgs ==
    {<<None, None>>, <<Some("RUNNING"), None>>,
     <<Some("DONE"), Some(Dict1("a", "z"))>>}

NextFrame ==
    \/ \E p \in Procs : set_global_lock(p)
    \/ \E p \in Procs, identifier \in Identifiers, a \in FewAllocArgs :
          allocate(p, identifier, a[1], a[2], a[3])
    \/ \E p \in Procs : allocate_return(p)
    \/ \E p \in Procs, identifier \in Identifiers, uid \in Uids,
          a \in FrameLogArgs :
          log(p, identifier, uid, a[1], a[2])
    \/ \E p \in Procs : log_return(p)

SpecFrame == Init /\ [][NextFrame]_vars

\* ------------------------------------------------------------------ *\
\* Properties
\* ------------------------------------------------------------------ *\
\* the document on disk ({} while the file does not exist)
Document == load_returns(file)

\* the run-set of an identifier on disk (empty when the identifier is absent)
RunSet(identifier) ==
    IF identifier \in DOMAIN Document THEN Document[identifier] ELSE <<>>

Range(seq) == {seq[i] : i \in 1..Len(seq)}
NoDuplicates(seq) == \A i, j \in 1..Len(seq) : seq[i] = seq[j] => i = j

\* every process has installed the shared lock handle
LockInstalled == \A p \in Procs : pc[p] # "start" => LEDGER_LOCK[p] = "lock"

\* C1: with the shared lock installed, whatever the interleaving of the
\* allocate calls of the processes, the run-set of an identifier on disk holds
\* exactly the uids those calls returned: none was returned twice, none is lost.
C1_AllocateIsolation ==
    LockInstalled =>
        \A k \in Identifiers :
            /\ Range(keys(RunSet(k))) = {r.uid : r \in Range(returned[k])}
            /\ NoDuplicates([i \in 1..Len(returned[k]) |-> returned[k][i].uid])
            /\ Len(RunSet(k)) = Len(returned[k])

\* both processes have allocated for the same identifier
C1_Witness ==
    \E k \in Identifiers :
        /\ Len(returned[k]) = 2
        /\ returned[k][1].proc # returned[k][2].proc
        /\ Len(RunSet(k)) = 2

\* C2: with the lock installed at most one process is between the load and
\* the save of a mutating call; it holds the lock, and the document it loaded
\* is still the one on disk (no other save came in between).
C2_MutualExclusion ==
    LockInstalled =>
        /\ Cardinality({p \in Procs : pc[p] = "body"}) <= 1
        /\ \A p \in Procs :
              pc[p] = "body" => holder = p /\ data[p] = Document

\* one process is inside a mutating call on an existing ledger while the
\* other is idle
C2_Witness ==
    \E p, q \in Procs :
        /\ pc[p] = "body"
        /\ call[p].op = "log"
        /\ pc[q] = "idle"
        /\ file.exists

\* the step in which process p leaves the with block of allocate / of log
AllocateStep(p) == pc[p] = "body" /\ call[p].op = "allocate" /\ pc'[p] = "idle"
LogStep(p) == pc[p] = "body" /\ call[p].op = "log" /\ pc'[p] = "idle"

\* the uids allocate has returned for an identifier, in the order of return
ReturnedUids(k) == [i \in 1..Len(returned[k]) |-> returned[k][i].uid]

\* C3: the uid a successful allocate returns is absent from the run-set of
\* its identifier right before the allocation, differs from every uid
\* returned earlier for that identifier, and is in the run-set afterwards,
\* whatever log calls and allocations for other identifiers came in between.
C3_FreshUid ==
    [][\A p \in Procs, k \in Identifiers :
          AllocateStep(p) /\ call[p].identifier = k /\ last'.kind = "uid" =>
              /\ ~contains(RunSet(k), last'.val)
              /\ last'.val \notin Range(ReturnedUids(k))
              /\ contains(RunSet(k)', last'.val)
              /\ Len(RunSet(k)') = Len(RunSet(k)) + 1]_vars

\* two allocations for one identifier with an allocation for the other one
\* among them
C3_Witness ==
    /\ Len(returned["id_A"]) = 2
    /\ Len(returned["id_B"]) = 1
    /\ last.kind = "uid"
    /\ last.val = returned["id_A"][2].uid

\* C4: from an empty run-set the allocations of one identifier return
\* 0, 1, ..., maxsize-1 zero-padded, in that order; an allocate succeeds
\* exactly when fewer than maxsize uids are present, and one that does not
\* raises the capacity error, returns no uid and leaves the file as it was.
C4_CapacityBound ==
    /\ [](\A k \in Identifiers :
            /\ Len(returned[k]) <= MaxSize
            /\ \A i \in 1..Len(returned[k]) :
                  returned[k][i].uid = Pad(i - 1, Width(MaxSize)))
    /\ [][\A p \in Procs :
            AllocateStep(p) =>
                IF Len(RunSet(call[p].identifier)) < maxsize[p]
                THEN last'.kind = "uid"
                ELSE /\ last'.kind = "CapacityExceeded"
                     /\ last'.val = None
                     /\ file' = file
                     /\ returned' = returned]_vars

\* maxsize allocations of one identifier succeeded and the next one failed
C4_Witness ==
    /\ last.kind = "CapacityExceeded"
    /\ \E k \in Identifiers :
          /\ Len(returned[k]) = MaxSize
          /\ Len(RunSet(k)) = MaxSize
          /\ \A j \in Identifiers \ {k} : Len(returned[j]) = 0

\* (identifier, uid) names a record of the document d
HasRecord(d, identifier, uid) ==
    identifier \in DOMAIN d /\ contains(d[identifier], uid)

\* C5: get_record, and log with a status, raise KeyError (NotFound) whenever
\* the identifier or the uid is absent from the document, and only then; the
\* failure leaves the file as it was: no record and no empty run-set is
\* created, and a missing file is not created.
C5_MissingKey ==
    [][/\ \A p \in Procs, k \in Identifiers, u \in Uids :
             get_record(p, k, u) =>
                 /\ (last'.kind = "KeyError") = ~HasRecord(Document, k, u)
                 /\ last'.kind = "KeyError" => file' = file
       /\ \A p \in Procs :
             LogStep(p) /\ truthy_status(call[p].status) =>
                 /\ (last'.kind = "KeyError") =
                       ~HasRecord(Document, call[p].identifier, call[p].uid)
                 /\ last'.kind = "KeyError" => file' = file]_vars

\* a log past its early return has raised KeyError on a ledger that holds
\* one record, and no other record or run-set has appeared
C5_Witness ==
    /\ last = Raised("log", "KeyError")
    /\ file.exists
    /\ DOMAIN Document = {"id_A"}
    /\ Len(RunSet("id_A")) = 1

\* C6: log with neither status nor path_dict returns None at once in every
\* state, whether or not the record exists and whoever holds the lock: it
\* does not take the lock, does not load and does not write.
C6_NoOpLog ==
    [][\A p \in Procs, k \in Identifiers, u \in Uids :
          log(p, k, u, None, None) =>
              /\ last' = Returned("log", "none", None)
              /\ file' = file
              /\ pc'[p] = "idle"
              /\ holder' = holder
              /\ self_data' = self_data]_vars

\* a log with no argument has returned while the other process was inside a
\* mutating call, before the ledger file existed
C6_Witness ==
    /\ last = Returned("log", "none", None)
    /\ \E q \in Procs : pc[q] = "body" /\ holder = q
    /\ ~file.exists

\* the index of the last path_dict of the history that names tag t
LastAttach(hist, t) ==
    CHOOSE i \in 1..Len(hist) :
        /\ t \in DOMAIN hist[i]
        /\ \A j \in (i + 1)..Len(hist) : t \notin DOMAIN hist[j]

\* C7: the files of a record are the left-to-right overlay of the path_dicts
\* logged for it: exactly the tags some call attached, each with the path of
\* the last call that attached it.
C7_FilesOverlay ==
    \A k \in DOMAIN Document :
        \A i \in 1..Len(Document[k]) :
            LET files == Document[k][i].rec.files
                hist == attached[k][Document[k][i].uid]
            IN  /\ DOMAIN files = UNION {DOMAIN hist[j] : j \in 1..Len(hist)}
                /\ \A t \in DOMAIN files : files[t] = hist[LastAttach(hist, t)][t]

\* a record got {a: x, b: y} and then {a: z}: tag a was overwritten, tag b kept
C7_Witness ==
    \E k \in DOMAIN Document :
        \E i \in 1..Len(Document[k]) :
            /\ attached[k][Document[k][i].uid] =
                  <<Dict2("a", "x", "b", "y"), Dict1("a", "z")>>
            /\ Document[k][i].rec.files = Dict2("a", "z", "b", "y")

\* C8: find_by_param_hash returns None for param_hash None whatever the
\* document holds; for another param_hash and an identifier of the document
\* it returns the first (uid, record) of the run-set, in stored order, whose
\* param_hash is the given one, and None when the run-set has no such record.
C8_FindFirst ==
    [][\A p \in Procs, k \in Identifiers, h \in QueryHashes :
          find_by_param_hash(p, k, h) =>
              /\ h = None => last' = Returned("find_by_param_hash", "none", None)
              /\ h # None /\ k \in DOMAIN Document =>
                    LET rs == Document[k]
                        hits == {i \in 1..Len(rs) : rs[i].rec.param_hash = h}
                    IN  IF hits = {}
                        THEN last' = Returned("find_by_param_hash", "none", None)
                        ELSE \E i \in hits :
                                /\ \A j \in hits : i <= j
                                /\ last'.kind = "hit"
                                /\ last'.val = <<rs[i].uid, rs[i].rec>>]_vars

\* the run-set holds two records with the param_hash asked for, and the
\* first one was returned
C8_Witness ==
    /\ last.op = "find_by_param_hash"
    /\ last.kind = "hit"
    /\ \E k \in DOMAIN Document :
          /\ Len(Document[k]) = 2
          /\ Document[k][1].rec.param_hash = Document[k][2].rec.param_hash
          /\ last.val = <<Document[k][1].uid, Document[k][1].rec>>

\* (identifier, uid) names a record after the step but not before it
Created(k, u) == ~HasRecord(Document, k, u) /\ HasRecord(Document', k, u)

\* C9 as stated: a record enters the document only in the step that ends an
\* allocate for its identifier, has status PENDING at that moment, and log
\* adds no (identifier, uid) key.
C9_CreatedPending ==
    [][/\ \A k \in Identifiers, u \in Uids :
             Created(k, u) =>
                 /\ \E p \in Procs : AllocateStep(p) /\ call[p].identifier = k
                 /\ getitem(Document'[k], u).status = "PENDING"
       /\ \A p \in Procs, k \in Identifiers, u \in Uids :
             LogStep(p) => ~Created(k, u)]_vars

\* C9 amended: a record enters the document only in the step that ends an
\* allocate for its identifier, under the uid that allocate returns, with the
\* status, param_hash and relpath given to that allocate (PENDING is only the
\* default of the status argument), freshly stamped and without files; log
\* adds no (identifier, uid) key.
C9_CreatedByAllocate ==
    [][/\ \A k \in Identifiers, u \in Uids :
             Created(k, u) =>
                 \E p \in Procs :
                     /\ AllocateStep(p)
                     /\ call[p].identifier = k
                     /\ last' = Returned("allocate", "uid", u)
                     /\ getitem(Document'[k], u) =
                           [status |-> call[p].status[1],
                            param_hash |-> call[p].param_hash,
                            relpath |-> call[p].relpath,
                            timestamp |-> Some(datetime_now),
                            files |-> EmptyDict]
       /\ \A p \in Procs, k \in Identifiers, u \in Uids :
             LogStep(p) => ~Created(k, u)]_vars

\* the only call so far was an allocate, and its record has status RUNNING
C9_Witness ==
    /\ ncalls = 1
    /\ last.kind = "uid"
    /\ \E k \in DOMAIN Document :
          /\ Len(Document[k]) = 1
          /\ Document[k][1].uid = last.val
          /\ Document[k][1].rec.status = "RUNNING"

\* C10: a record that is on disk stays on disk under its (identifier, uid)
\* with the param_hash and relpath it has, through every later allocate and
\* log of any process, and no later allocate for the identifier returns its
\* uid.
C10_Permanent ==
    [][\A k \in Identifiers, u \in Uids :
          HasRecord(Document, k, u) =>
              /\ HasRecord(Document', k, u)
              /\ getitem(Document'[k], u).param_hash =
                    getitem(Document[k], u).param_hash
              /\ getitem(Document'[k], u).relpath =
                    getitem(Document[k], u).relpath
              /\ \A p \in Procs :
                    AllocateStep(p) /\ call[p].identifier = k =>
                        last' # Returned("allocate", "uid", u)]_vars

\* a record was allocated with param_hash 5, then logged DONE with a file,
\* and a second record was allocated for its identifier after that
C10_Witness ==
    \E k \in DOMAIN Document :
        /\ Len(Document[k]) = 2
        /\ Document[k][1].rec.param_hash = Some(5)
        /\ Document[k][1].rec.status = "DONE"
        /\ Document[k][1].rec.files = Dict1("a", "z")
        /\ Document[k][1].rec.timestamp[1] < Document[k][2].rec.timestamp[1]

\* C11: within one process every construction for the same resolved file
\* path yields the identical instance: the first construction registers a
\* fresh instance with the maxsize it was given, a later one returns the
\* registered instance and leaves it, and the registry, as they were,
\* whatever spelling of the path and whatever maxsize it passes; the
\* registries of the other processes are not touched.
C11_SameInstance ==
    /\ [](\A p \in Procs :
            \A k1, k2 \in DOMAIN instances[p] :
                /\ instances[p][k1].obj.file = k1
                /\ instances[p][k1].id = instances[p][k2].id => k1 = k2)
    /\ [][\A p \in Procs, path \in Paths, size \in Sizes :
            Ledger(p, path, size) =>
                LET key == resolve(path)
                IN  /\ key \in DOMAIN instances'[p]
                    /\ last'.val = <<p, instances'[p][key].id>>
                    /\ \A k \in DOMAIN instances[p] :
                          /\ k \in DOMAIN instances'[p]
                          /\ instances'[p][k] = instances[p][k]
                    /\ IF key \in DOMAIN instances[p]
                       THEN instances' = instances
                       ELSE /\ instances'[p][key].obj.maxsize = size
                            /\ DOMAIN instances'[p] =
                                  DOMAIN instances[p] \cup {key}
                    /\ \A q \in Procs \ {p} :
                          instances'[q] = instances[q]]_vars

\* a process has constructed twice for one file, the second time with
\* another spelling of the path and another maxsize, and got the instance of
\* the first construction with the maxsize of the first construction
C11_Witness ==
    \E p \in Procs :
        /\ ncalls = 2
        /\ call[p].op = "Ledger"
        /\ DOMAIN instances[p] = {resolve(call[p].path)}
        /\ \A q \in Procs \ {p} : DOMAIN instances[q] = {}
        /\ instances[p][resolve(call[p].path)].obj.maxsize # call[p].maxsize
        /\ call[p].path # <<"ledger.json">>
        /\ instances[p][resolve(call[p].path)].obj.file = <<"work", "ledger.json">>
        /\ last = Returned("Ledger", "instance", <<p, 0>>)

\* a call of the serial process is in its with block / has just ended
SerialIdle == pc[SerialProc] = "idle" /\ ncalls < MaxCalls

\* the serial process can issue every call and can finish the call it is in;
\* inside the with block it works on the document on disk, and it holds the
\* lock exactly when a handle is installed
SerialNeverBlocks ==
    /\ SerialIdle =>
          /\ \A k \in FewIds, a \in FewAllocArgs :
                ENABLED allocate(SerialProc, k, a[1], a[2], a[3])
          /\ \A k \in FewIds, u \in FewUids, a \in FewLogArgs :
                ENABLED log(SerialProc, k, u, a[1], a[2])
          /\ \A k \in FewIds, u \in FewUids :
                ENABLED get_record(SerialProc, k, u)
    /\ pc[SerialProc] = "body" =>
          /\ ENABLED (allocate_return(SerialProc) \/ log_return(SerialProc))
          /\ data[SerialProc] = Document
          /\ holder = IF LEDGER_LOCK[SerialProc] = "lock"
                      THEN SerialProc ELSE "free"
    /\ pc[SerialProc] = "idle" => holder = "free"
    /\ last.kind \in {"running", "uid", "none", "record", "dict", "hit",
                      "KeyError", "CapacityExceeded"}

\* the result of a call and the document it leaves are functions of the
\* document it found, of its arguments and of the instant alone
SerialSameStep ==
    LET p == SerialProc
    IN  /\ AllocateStep(p) =>
              LET out == allocate_outcome(Document, call[p], maxsize[p],
                                          datetime_now)
              IN  /\ last' = out.result
                  /\ IF out.result.kind = "uid"
                     THEN file' = save_writes(out.data)
                     ELSE file' = file
        /\ LogStep(p) =>
              LET out == log_outcome(Document, call[p], datetime_now)
              IN  /\ last' = out.result
                  /\ IF out.result.kind = "none"
                     THEN file' = save_writes(out.data)
                     ELSE file' = file
        /\ \A k \in Identifiers, u \in FewUids :
              get_record(p, k, u) =>
                  /\ last' = get_record_outcome(Document, k, u)
                  /\ file' = file
        /\ \A k \in Identifiers :
              get_uid_record_dict(p, k) =>
                  /\ last' = get_uid_record_dict_outcome(Document, k)
                  /\ file' = file
        /\ \A k \in Identifiers, h \in FewHashes \ {None} :
              find_by_param_hash(p, k, h) =>
                  /\ last' = find_by_param_hash_outcome(Document, k, h)
                  /\ file' = file

\* C12: for a process that uses the ledger alone, allocate and log never
\* wait and never fail for lack of a lock handle, and the handle changes
\* neither results nor documents: with the handle installed or not, every
\* call can be issued and can complete, and its result and the document it
\* leaves on disk are the same function of the document it found, of its
\* arguments and of the instant; the handle only decides whether the lock is
\* held inside the with block.
C12_SerialMode == []SerialNeverBlocks /\ [][SerialSameStep]_vars

\* without a lock handle the process has allocated a record and logged a
\* status and a file for it: the log has been saved and nobody holds a lock
C12_Witness ==
    /\ LEDGER_LOCK[SerialProc] = "None"
    /\ last = Returned("log", "none", None)
    /\ io = IO(0, 1)
    /\ holder = "free"
    /\ \E k \in DOMAIN Document :
          /\ Len(Document[k]) = 1
          /\ Document[k][1].rec.status = "DONE"
          /\ Document[k][1].rec.files = Dict1("a", "z")

\* a process that is between calls can get the result of each query in its
\* next step, whoever holds the lock
ReadsNeverWait ==
    \A p \in Procs :
        pc[p] = "idle" /\ ncalls < MaxCalls =>
            /\ \A k \in Identifiers, u \in FewUids : ENABLED get_record(p, k, u)
            /\ \A k \in Identifiers : ENABLED get_uid_record_dict(p, k)
            /\ \A k \in Identifiers, h \in FewHashes :
                  ENABLED find_by_param_hash(p, k, h)

\* a query is one step that ends with its result and touches neither the
\* lock nor the position of any process: whoever could take the lock before
\* it can take it after it
ReadsLeaveLock ==
    \A p \in Procs, k \in Identifiers :
        (\/ \E u \in FewUids : get_record(p, k, u)
         \/ get_uid_record_dict(p, k)
         \/ \E h \in FewHashes : find_by_param_hash(p, k, h)) =>
            /\ last'.kind # "running"
            /\ holder' = holder
            /\ LEDGER_LOCK' = LEDGER_LOCK
            /\ pc' = pc
            /\ \A q \in Procs : lock_enterable(q)' = lock_enterable(q)

\* C13: get_record, get_uid_record_dict and find_by_param_hash never take
\* the lock: a query issued while another process holds the lock inside a
\* mutating call completes without waiting for the release, and a query
\* never keeps a mutating call from taking the lock.
C13_ReadsUnlocked == []ReadsNeverWait /\ [][ReadsLeaveLock]_vars

\* a query has returned the run-set of an identifier while another process
\* held the lock inside a mutating call on the existing ledger
C13_Witness ==
    /\ last.op = "get_uid_record_dict"
    /\ last.kind = "dict"
    /\ \E q \in Procs : holder = q /\ pc[q] = "body" /\ LEDGER_LOCK[q] = "lock"

\* the file exists and one of its records has a status outside the schema
MalformedFile ==
    /\ file.exists
    /\ \E k \in DOMAIN file.bytes :
          \E i \in 1..Len(file.bytes[k]) :
              file.bytes[k][i].rec.status \notin
                  {"pending", "running", "done", "error"}

\* the step ends the call of `op` with ValidationError and changes neither
\* the file nor the lock nor the position of a process
FailsValidation(op) ==
    /\ last' = Raised(op, "ValidationError")
    /\ file' = file
    /\ holder' = holder
    /\ pc' = pc
    /\ self_data' = self_data

\* C14: on a malformed document every operation that loads it (allocate, log
\* with something to log, get_record, get_uid_record_dict, find_by_param_hash
\* with a param_hash) raises ValidationError and leaves the file exactly as
\* it was: nothing is repaired, truncated or rewritten.
C14_ValidationError ==
    [][MalformedFile =>
          \A p \in Procs, k \in FewIds, u \in FewUids :
              /\ \A a \in FewAllocArgs :
                    allocate(p, k, a[1], a[2], a[3]) =>
                        FailsValidation("allocate")
              /\ \A a \in FewLogArgs :
                    log(p, k, u, a[1], a[2])
                        /\ (truthy_status(a[1]) \/ truthy_dict(a[2])) =>
                        FailsValidation("log")
              /\ get_record(p, k, u) => FailsValidation("get_record")
              /\ get_uid_record_dict(p, k) =>
                    FailsValidation("get_uid_record_dict")
              /\ \A h \in FewHashes \ {None} :
                    find_by_param_hash(p, k, h) =>
                        FailsValidation("find_by_param_hash")]_vars

\* a log has raised ValidationError on a file that was rewritten with a
\* malformed document after the ledger had been used: the malformed bytes
\* are still there, and the cache of a process still holds the valid document
C14_Witness ==
    /\ last = Raised("log", "ValidationError")
    /\ MalformedFile
    /\ file.bytes \in MalformedDocs
    /\ \E p \in Procs : DOMAIN self_data[p] # {}

\* the step of process p that issues a mutating call / a query
IssuesAllocate(p) ==
    \E k \in FewIds, a \in FewAllocArgs : allocate(p, k, a[1], a[2], a[3])
IssuesLog(p) ==
    \E k \in FewIds, u \in FewUids, a \in FewLogArgs : log(p, k, u, a[1], a[2])
IssuesQuery(p) ==
    \/ \E k \in Identifiers, u \in FewUids : get_record(p, k, u)
    \/ \E k \in Identifiers : get_uid_record_dict(p, k)
    \/ \E k \in Identifiers, h \in FewHashes : find_by_param_hash(p, k, h)

\* what the step that ends a mutating call does with the file: no load, and
\* one save exactly when the call does not raise
EndsWithOneSave ==
    /\ io'.loads = 0
    /\ io'.saves = IF last'.kind \in {"KeyError", "CapacityExceeded"}
                   THEN 0 ELSE 1
    /\ io'.saves = 0 => file' = file

\* C15 as stated: every allocate and every log loads the document once when
\* it is issued and saves once when it ends unless it raises; every query
\* loads once and saves nothing.
C15_OneReadOneWrite ==
    [][\A p \in Procs :
          /\ IssuesAllocate(p) \/ IssuesLog(p) => io' = IO(1, 0)
          /\ AllocateStep(p) \/ LogStep(p) => EndsWithOneSave
          /\ IssuesQuery(p) => io' = IO(1, 0) /\ file' = file]_vars

\* C15 amended: allocate, and log with a status or a non-empty path_dict,
\* call _load once when they are issued and _save once when they end, unless
\* they raise, and then not at all; get_record, get_uid_record_dict and
\* find_by_param_hash with a param_hash call _load once and never _save;
\* log with nothing to log and find_by_param_hash without a param_hash
\* return without any load or save.
C15_LoadsAndSaves ==
    [][\A p \in Procs :
          /\ IssuesAllocate(p) => io' = IO(1, 0)
          /\ (IssuesAllocate(p) \/ IssuesLog(p) \/ IssuesQuery(p))
                /\ last'.kind = "ValidationError" =>
                    io' = IO(1, 0) /\ file' = file /\ pc'[p] = "idle"
          /\ \A k \in FewIds, u \in FewUids, a \in FewLogArgs :
                log(p, k, u, a[1], a[2]) =>
                    IF truthy_status(a[1]) \/ truthy_dict(a[2])
                    THEN io' = IO(1, 0)
                    ELSE io' = NoIO /\ pc'[p] = "idle" /\ file' = file
          /\ AllocateStep(p) \/ LogStep(p) => EndsWithOneSave
          /\ \A k \in Identifiers :
                /\ \A u \in FewUids :
                      get_record(p, k, u) => io' = IO(1, 0) /\ file' = file
                /\ get_uid_record_dict(p, k) => io' = IO(1, 0) /\ file' = file
                /\ \A h \in FewHashes :
                      find_by_param_hash(p, k, h) =>
                          /\ io' = IF h = None THEN NoIO ELSE IO(1, 0)
                          /\ file' = file]_vars

\* a log with nothing to log has returned on an existing ledger without a
\* load or a save
C15_Witness ==
    /\ last = Returned("log", "none", None)
    /\ io = NoIO
    /\ file.exists
    /\ \A p \in Procs : pc[p] = "idle"

\* C16: get_uid_record_dict(identifier), and find_by_param_hash(identifier,
\* h) with a param_hash, raise KeyError (NotFound) whenever the identifier
\* has no run-set in the document, also while the ledger file does not exist,
\* and return a result when it has one; neither call changes the file, so the
\* identifier is not created on disk.
C16_AbsentIdentifier ==
    [][\A p \in Procs, k \in Identifiers :
          /\ get_uid_record_dict(p, k) =>
                /\ file' = file
                /\ IF k \in DOMAIN Document
                   THEN last' = Returned("get_uid_record_dict", "dict",
                                         Document[k])
                   ELSE last' = Raised("get_uid_record_dict", "KeyError")
          /\ \A h \in FewHashes \ {None} :
                find_by_param_hash(p, k, h) =>
                    /\ file' = file
                    /\ IF k \in DOMAIN Document
                       THEN last'.kind \in {"hit", "none"}
                       ELSE last' = Raised("find_by_param_hash", "KeyError")]_vars

\* find_by_param_hash has raised KeyError for an identifier without run-set
\* while another identifier had one, and the document still has no run-set
\* for it
C16_Witness ==
    /\ last = Raised("find_by_param_hash", "KeyError")
    /\ file.exists
    /\ DOMAIN Document = {"id_A"}

\* get_uid_record_dict has raised KeyError before the ledger file existed,
\* and the file still does not exist
C16_WitnessNoFile ==
    /\ last = Raised("get_uid_record_dict", "KeyError")
    /\ ~file.exists

\* C17: for every list of existing keys (with or without gaps, in any
\* order, with keys of another width) and every maxsize the naming strategy
\* returns the zero-padded form, of the width of maxsize - 1, of the smallest
\* integer of [0, maxsize) whose padded form is not a key, and raises its
\* capacity error when there is none; a repeated call on the same keys
\* returns the same uid, and the list of keys is left as it was given.
C17_SmallestFree ==
    [][naming_call(NamingProc) =>
          LET size == call[NamingProc].maxsize
              given == Range(call[NamingProc].existing_keys)
              width == Len(Digits(size - 1))
              taken(n) == Pad(n, width) \in given
          IN  /\ call' = call
              /\ last # Running => last' = last
              /\ IF \A n \in 0..(size - 1) : taken(n)
                 THEN last' = Raised("counter_naming_strategy",
                                     "CapacityExceeded")
                 ELSE \E n \in 0..(size - 1) :
                         /\ ~taken(n)
                         /\ \A j \in 0..(n - 1) : taken(j)
                         /\ last' = Returned("counter_naming_strategy", "uid",
                                             Pad(n, width))
                         /\ Len(last'.val) = width]_vars

\* the strategy was called twice with maxsize 11 on the keys 00, 02 and 10
\* and returned 01, the counter of the gap
C17_Witness ==
    /\ ncalls = 2
    /\ call[NamingProc].op = "counter_naming_strategy"
    /\ call[NamingProc].maxsize = 11
    /\ Range(call[NamingProc].existing_keys) = {<<0, 0>>, <<0, 2>>, <<1, 0>>}
    /\ last = Returned("counter_naming_strategy", "uid", <<0, 1>>)

\* the step that ends a mutating call of p applies the call to the document
\* that is on disk right before the step, whatever the cache of p holds, and
\* leaves every record but the one it names as it is on disk
AppliedToDisk(p) ==
    /\ AllocateStep(p) =>
          LET out == allocate_outcome(Document, call[p], maxsize[p],
                                      datetime_now)
          IN  /\ last' = out.result
              /\ IF out.result.kind = "uid"
                 THEN Document' = out.data
                 ELSE file' = file
    /\ LogStep(p) =>
          LET out == log_outcome(Document, call[p], datetime_now)
          IN  /\ last' = out.result
              /\ IF out.result.kind = "none"
                 THEN Document' = out.data
                 ELSE file' = file
    /\ AllocateStep(p) \/ LogStep(p) =>
          \A k \in Identifiers, u \in Uids :
              HasRecord(Document, k, u)
                  /\ ~(k = call[p].identifier /\ u = call[p].uid) =>
                  /\ HasRecord(Document', k, u)
                  /\ getitem(Document'[k], u) = getitem(Document[k], u)

\* C18: with the lock installed every mutating call works on the document
\* that is on disk, not on the cache of its instance: what another process
\* saved between two mutating calls of a process is still there after the
\* later call, so the document holds every allocated record, and every
\* record has the status and the files of the logs applied to it in the
\* order of the lock.
C18_RereadFromDisk ==
    /\ [](LockInstalled =>
            \A k \in Identifiers :
                \A i \in 1..Len(returned[k]) :
                    HasRecord(Document, k, returned[k][i].uid))
    /\ [][LockInstalled => \A p \in Procs : AppliedToDisk(p)]_vars

\* a process allocated, the other process allocated for the same identifier,
\* and then the first process, whose cache did not hold the second record,
\* attached a file to its own record: both records are on disk
C18_Witness ==
    \E p, q \in Procs :
        /\ p # q
        /\ Len(returned["id_A"]) = 2
        /\ returned["id_A"][1].proc = p
        /\ returned["id_A"][2].proc = q
        /\ last = Returned("log", "none", None)
        /\ io = IO(0, 1)
        /\ self_data[p] = Document
        /\ self_data[q] # Document
        /\ Len(RunSet("id_A")) = 2
        /\ RunSet("id_A")[1].rec.files = Dict1("b", "w")

\* C19: a log with a status on an existing record succeeds whatever the
\* status of the record and whatever the status logged (PENDING, RUNNING,
\* DONE or ERROR, also DONE -> RUNNING and ERROR -> PENDING): the record gets
\* the status logged and a new, later stamp on each such call; a log that
\* only attaches files leaves status and stamp as they are.
C19_AnyTransition ==
    [][\A p \in Procs, k \in FewIds, u \in FewUids :
          LogStep(p) /\ call[p].identifier = k /\ call[p].uid = u
              /\ HasRecord(Document, k, u) =>
              /\ last' = Returned("log", "none", None)
              /\ HasRecord(Document', k, u)
              /\ LET old == getitem(Document[k], u)
                     new == getitem(Document'[k], u)
                 IN  IF call[p].status # None
                     THEN /\ new.status = call[p].status[1]
                          /\ new.timestamp = Some(datetime_now)
                          /\ new.timestamp[1] > old.timestamp[1]
                          /\ new.files = old.files
                     ELSE /\ new.status = old.status
                          /\ new.timestamp = old.timestamp]_vars

\* a record that a process has read as DONE has been logged RUNNING since:
\* it is RUNNING on disk with a later stamp
C19_Witness ==
    \E p \in Procs, k \in DOMAIN Document :
        /\ k \in DOMAIN self_data[p]
        /\ Len(self_data[p][k]) = 1
        /\ Len(Document[k]) = 1
        /\ self_data[p][k][1].rec.status = "DONE"
        /\ Document[k][1].rec.status = "RUNNING"
        /\ Document[k][1].rec.timestamp[1] > self_data[p][k][1].rec.timestamp[1]
        /\ last = Returned("log", "none", None)

\* a record that a process has read as ERROR has been logged PENDING since
C19_WitnessErrorPending ==
    \E p \in Procs, k \in DOMAIN Document :
        /\ k \in DOMAIN self_data[p]
        /\ Len(self_data[p][k]) = 1
        /\ self_data[p][k][1].rec.status = "ERROR"
        /\ Document[k][1].rec.status = "PENDING"
        /\ Document[k][1].rec.timestamp[1] > self_data[p][k][1].rec.timestamp[1]

C21_CacheIsWritten ==
    [][\A p \in Procs :
          (AllocateStep(p) \/ LogStep(p)) /\ last'.kind \in {"uid", "none"} =>
              /\ io' = IO(0, 1)
              /\ file'.exists
              /\ ~load_raises(file')
              /\ self_data'[p] = load_returns(file')]_vars

\* a process has just been returned the second uid of an identifier: its
\* cache holds both records as the file does, the cache of the other process
\* still holds the first record only
C21_Witness ==
    \E p, q \in Procs :
        /\ p # q
        /\ last = Returned("allocate", "uid", Pad(1, Width(MaxSize)))
        /\ io = IO(0, 1)
        /\ pc[p] = "idle"
        /\ Len(RunSet("id_A")) = 2
        /\ self_data[p] = Document
        /\ "id_A" \in DOMAIN self_data[q]
        /\ Len(self_data[q]["id_A"]) = 1
        /\ returned["id_A"][2].proc = p

\* the lock is held by a process inside its with block and by no other
HeldInBodyOnly ==
    /\ holder # "free" => pc[holder] = "body"
    /\ \A p \in Procs : pc[p] = "body" => holder = p

\* the step that ends a call, with a result or an error, leaves the lock free
ExitReleases ==
    \A p \in Procs :
        pc[p] \in {"waiting", "body"} /\ pc'[p] = "idle" =>
            /\ holder' = "free"
            /\ last'.op = call[p].op
            /\ last'.kind \in {"uid", "none", "CapacityExceeded", "KeyError",
                               "ValidationError"}

\* C22: with the shared lock installed, the lock is released on every exit
\* of allocate and log, also when the call fails with the capacity error, the
\* not-found error or the validation error; so under fair scheduling every
\* allocate and log call that has been issued gets the lock and ends, with a
\* result or an error, and no call waits forever behind a failed one.
C22_AlwaysReleased ==
    /\ []HeldInBodyOnly
    /\ [][ExitReleases]_vars
    /\ \A p \in Procs : (pc[p] # "idle") ~> (pc[p] = "idle")

\* a call has just failed with the capacity error while the other process
\* waits at the lock, and the lock is free
C22_Witness ==
    \E p, q \in Procs :
        /\ p # q
        /\ last = Raised("allocate", "CapacityExceeded")
        /\ pc[p] = "idle"
        /\ pc[q] = "waiting"
        /\ holder = "free"

\* a log has just failed with the not-found error while the other process waits
C22_WitnessNotFound ==
    \E p, q \in Procs :
        /\ p # q
        /\ last = Raised("log", "KeyError")
        /\ pc[q] = "waiting"
        /\ holder = "free"

\* a call has just failed with the validation error while the other process
\* waits
C22_WitnessValidation ==
    \E p, q \in Procs :
        /\ p # q
        /\ last.kind = "ValidationError"
        /\ pc[p] = "idle"
        /\ pc[q] = "waiting"
        /\ holder = "free"

\* C23: starting from an empty ledger, the uid that allocate returns is the
\* one the naming strategy gives for the run-set of its own identifier: the
\* n-th allocation of an identifier returns the padded n-1 whatever has been
\* allocated for the other identifier before or in between, and the step
\* leaves the run-set of the other identifier, present or absent, as it was.
C23_PerIdentifier ==
    [][\A p \in Procs, k \in Identifiers :
          AllocateStep(p) /\ call[p].identifier = k /\ last'.kind = "uid" =>
              /\ last'.val = Pad(Len(returned[k]), Width(maxsize[p]))
              /\ Some(last'.val) =
                     counter_naming_strategy(keys(RunSet(k)), maxsize[p])
              /\ keys(RunSet(k)') = Append(keys(RunSet(k)), last'.val)
              /\ \A j \in Identifiers \ {k} :
                    /\ (j \in DOMAIN Document') = (j \in DOMAIN Document)
                    /\ RunSet(j)' = RunSet(j)]_vars

\* the first allocation of an identifier has just returned the first uid
\* while the other identifier holds two records, which it still holds
C23_Witness ==
    \E k, j \in Identifiers :
        /\ k # j
        /\ Len(returned[j]) = 2
        /\ Len(returned[k]) = 1
        /\ last = Returned("allocate", "uid", Pad(0, Width(MaxSize)))
        /\ keys(RunSet(k)) = <<Pad(0, Width(MaxSize))>>
        /\ keys(RunSet(j)) = <<Pad(0, Width(MaxSize)), Pad(1, Width(MaxSize))>>

\* the document after the step has the identifiers and, under each, the uids
\* of the document before it, in the same order
SameKeys ==
    /\ DOMAIN Document' = DOMAIN Document
    /\ \A j \in DOMAIN Document : keys(Document'[j]) = keys(Document[j])

\* every record but the one at (k, u) is after the step what it was before
OthersUnchanged(k, u) ==
    \A j \in DOMAIN Document, v \in Uids :
        contains(Document[j], v) /\ <<j, v>> # <<k, u>> =>
            getitem(Document'[j], v) = getitem(Document[j], v)

\* C24: a log that succeeds leaves on disk the identifiers and the uids that
\* were there, leaves every record other than the one at (identifier, uid)
\* as it was, under the same identifier and under the other one, and changes
\* of that record nothing but status, timestamp and files; a log with nothing
\* to log leaves the file as it was.
C24_LogFrame ==
    [][/\ \A p \in Procs, k \in Identifiers, u \in Uids :
             LogStep(p) /\ call[p].identifier = k /\ call[p].uid = u
                 /\ last'.kind = "none" =>
                 /\ SameKeys
                 /\ OthersUnchanged(k, u)
                 /\ getitem(Document'[k], u).param_hash =
                        getitem(Document[k], u).param_hash
                 /\ getitem(Document'[k], u).relpath =
                        getitem(Document[k], u).relpath
       /\ ncalls' # ncalls /\ last' = Returned("log", "none", None) =>
             file' = file]_vars

\* a log has just set the first of two records of an identifier to DONE with
\* a file: the second record is as allocate made it
C24_Witness ==
    \E k \in Identifiers :
        /\ last = Returned("log", "none", None)
        /\ io = IO(0, 1)
        /\ Len(RunSet(k)) = 2
        /\ RunSet(k)[1].rec.status = "DONE"
        /\ RunSet(k)[1].rec.files = Dict1("a", "z")
        /\ RunSet(k)[1].rec.param_hash = Some(5)
        /\ RunSet(k)[2].rec.status = "PENDING"
        /\ RunSet(k)[2].rec.files = EmptyDict

\* a log has just set the record of one identifier to RUNNING: the record of
\* the other identifier is as allocate made it
C24_WitnessOtherIdentifier ==
    \E k, j \in Identifiers :
        /\ k # j
        /\ last = Returned("log", "none", None)
        /\ io = IO(0, 1)
        /\ Len(RunSet(k)) = 1
        /\ Len(RunSet(j)) = 1
        /\ RunSet(k)[1].rec.status = "RUNNING"
        /\ RunSet(j)[1].rec.status = "PENDING"

====
